---------------------------- MODULE Spec2Model ----------------------------
(***************************************************************************)
(* dmi-scheduler: the job queue (scheduler/queue.py), the dispatcher       *)
(* (dmi_scheduler/manager.py) and the worker scaffold                      *)
(* (dmi_scheduler/worker.py) as one state machine.                         *)
(*                                                                         *)
(* The jobs table is a set of rows.  Every SQL statement is one atomic     *)
(* step; the dispatcher thread, the worker threads and the client threads  *)
(* interleave between statements.  Strings that the code transforms (file  *)
(* paths, worker types) are sequences of one-character strings, so that    *)
(* get_worker_type_for_file is computed, not assumed.                      *)
(***************************************************************************)
EXTENDS Integers, Sequences, FiniteSets, TLC

(***************************************************************************)
(* Bounds of the model                                                     *)
(***************************************************************************)
\* wall clock at construction; larger than every interval, as a real clock is
T0 == 2
\* Spec: number of times the clock is seen to advance
MaxTicks == 1
\* Spec: number of rows ever inserted (ids the identity column hands out)
MaxAdds == 2
\* SpecSolo, FairSolo: the same two bounds, one job over a longer time
SoloTicks == 2
SoloAdds == 1
\* SpecQueue: the same two bounds for the callers of the queue
QueueTicks == 1
QueueAdds == 2
\* SpecQuery: the same two bounds for the callers that also query the queue
QueryTicks == 2
QueryAdds == 1
\* SpecQueue, SpecQuery: claim() calls logged per row while it stays claimed
MaxCalls == 3
\* SpecQueue, SpecQuery: successful claims per row
MaxAttempts == 2
StoreTicks == 3
\* SpecStarve: seconds during which the clients enqueue, and rows they insert
StarveTicks == 2
StarveAdds == 3

(***************************************************************************)
(* Program constants                                                       *)
(***************************************************************************)
INTERRUPT_NONE == 0
INTERRUPT_RETRY == 1
INTERRUPT_CANCEL == 2
\* BasicWorker.run: self.job.release(delay=10)
RetryDelay == 10
\* a request_abort whose default level is INTERRUPT_CANCEL
CancelLevel == INTERRUPT_CANCEL
\* BasicWorker.request_abort(self, level=1)
DefaultLevel == 1
\* BasicWorker.max_workers = 1
DefaultMaxWorkers == 1

(***************************************************************************)
(* Worker source files known to the model.  A path is a sequence of        *)
(* characters; all paths are absolute and normalised, so Path.resolve()    *)
(* leaves them as they are.                                                *)
(***************************************************************************)
FileA == <<"/", "w", "-", "a">>
FileB == <<"/", "W", "_", "a">>
FileMissing == <<"/", "m">>
FileNoClass == <<"/", "n">>
Files == {FileA, FileB, FileMissing, FileNoClass}

\* a test that finds every file
EveryFileExists(f) == f \in Files

\* Path.exists() of the job's pythonfile
FileExists(f) == f \in {FileA, FileB, FileNoClass}

NoClass == [max_workers |-> 0, file |-> <<>>]

\* a search that finds a worker class in every file
ClassInEvery(f) == [max_workers |-> 1, file |-> f]

\* the first non-abstract BasicWorker subclass a source file defines
ClassIn(f) ==
    CASE f = FileA -> [max_workers |-> DefaultMaxWorkers, file |-> FileA]
      [] f = FileB -> [max_workers |-> 2, file |-> FileB]
      [] OTHER -> NoClass

(***************************************************************************)
(* WorkerManager.get_worker_type_for_file: the module name of a file       *)
(***************************************************************************)
UpperCase == <<"A", "B", "C", "D", "E", "F", "G", "H", "I", "J", "K", "L", "M",
               "N", "O", "P", "Q", "R", "S", "T", "U", "V", "W", "X", "Y", "Z">>
LowerCase == <<"a", "b", "c", "d", "e", "f", "g", "h", "i", "j", "k", "l", "m",
               "n", "o", "p", "q", "r", "s", "t", "u", "v", "w", "x", "y", "z">>
Digits == {"0", "1", "2", "3", "4", "5", "6", "7", "8", "9"}
Range(s) == {s[i] : i \in DOMAIN s}

\* Path.parts joined with ".": the root "/" is a part of its own
JoinParts(p) ==
    <<"/", ".">> \o [i \in 1..(Len(p) - 1) |-> IF p[i + 1] = "/" THEN "." ELSE p[i + 1]]

\* str.replace("-", "_")
ReplaceDash(s) == [i \in DOMAIN s |-> IF s[i] = "-" THEN "_" ELSE s[i]]

\* re.sub(r"[^0-9a-zA-Z._]", "", s)
IsModuleChar(c) == c \in Digits \cup Range(UpperCase) \cup Range(LowerCase) \cup {".", "_"}
StripOther(s) == SelectSeq(s, IsModuleChar)

\* re.sub(r"\.+", ".", s)
RECURSIVE CollapseDots(_)
CollapseDots(s) ==
    IF Len(s) < 2 THEN s
    ELSE IF s[1] = "." /\ s[2] = "." THEN CollapseDots(Tail(s))
    ELSE <<s[1]>> \o CollapseDots(Tail(s))

\* re.sub(r"^\.+", "", s)
RECURSIVE StripLeadingDots(_)
StripLeadingDots(s) ==
    IF s # <<>> /\ s[1] = "." THEN StripLeadingDots(Tail(s)) ELSE s

\* str.lower()
LowerChar(c) ==
    IF \E i \in DOMAIN UpperCase : UpperCase[i] = c
    THEN LowerCase[CHOOSE i \in DOMAIN UpperCase : UpperCase[i] = c]
    ELSE c
Lower(s) == [i \in DOMAIN s |-> LowerChar(s[i])]

\* the module name of a path: join, replace, the three re.sub and lower()
ModuleName(pythonfile) ==
    Lower(StripLeadingDots(CollapseDots(StripOther(ReplaceDash(JoinParts(pythonfile))))))

\* the module names of the files of the model, computed once
ModuleNames == [f \in Files |-> ModuleName(f)]

get_worker_type_for_file(pythonfile) == ModuleNames[pythonfile]

WorkerTypes == {get_worker_type_for_file(f) : f \in Files}

(***************************************************************************)
(* State                                                                   *)
(***************************************************************************)
VARIABLES
    now,          \* int(time.time())
    jobs,         \* the rows of table jobs
    nextId,       \* the identity column's next value
    enqueued,     \* history: the (pythonfile, remote_id) pairs added and not deleted since
    late,         \* history: ids of the rows inserted while looping was False
    looping,      \* WorkerManager.looping
    mpc,          \* where the dispatcher thread is in WorkerManager.run
    fetched,      \* delegate's local list jobs, the part not yet iterated
    passed,       \* the part the for loop of this tick has gone through, each job
                  \* with whether a worker was started for it
    pool,         \* WorkerManager._worker_pool: worker type -> list of workers
    worker_map,   \* WorkerManager._worker_map: worker type -> worker class
    sys_modules,  \* sys.modules, the entries the resolver made: worker type -> file
    ret,          \* the result of the last query a client made of the queue
    claims        \* history: row id -> results of the claim() calls since it was unclaimed

vars == <<now, jobs, nextId, enqueued, late, looping, mpc, fetched, passed, pool,
          worker_map, sys_modules, ret, claims>>

\* what the callers of the queue keep: the last result, the log of claim() calls
client == <<ret, claims>>

RemoteIds == {"x"}
ClaimAfters == {0, T0 + 1}
Intervals == {0, 1}

\* the add_job calls the clients make: (pythonfile, remote_id, claim_after, interval)
Requests ==
    {q \in Files \X RemoteIds \X ClaimAfters \X Intervals :
        /\ q[3] # 0 => q[1] = FileA /\ q[4] = 0
        /\ ~FileExists(q[1]) \/ ClassIn(q[1]) = NoClass => q[4] = 0}

\* the add_job calls for jobs whose file may be missing or without a class
OddFileRequests == {FileMissing, FileNoClass, FileA} \X RemoteIds \X {0} \X Intervals

\* the add_job calls for a queue of one type on which two recurring jobs
\* and a one-shot job meet
StarveRequests == {<<FileA, "x", 0, 1>>, <<FileA, "y", 0, 1>>, <<FileA, "z", 0, 0>>}

\* the largest interval of a job
MaxInterval == 1

\* the levels request_abort is called with
Levels == {INTERRUPT_RETRY, INTERRUPT_CANCEL}

\* dict[key] = value
Put(f, k, v) == [x \in DOMAIN f \cup {k} |-> IF x = k THEN v ELSE f[x]]

(***************************************************************************)
(* Database (dmi_scheduler/database.py) on the jobs table                  *)
(***************************************************************************)
\* an INSERT without ON CONFLICT DO NOTHING, on a table without the constraint
InsertAlways(rows, data, id, constraints) == rows \cup {[data EXCEPT !.id = id]}

\* INSERT ... ON CONFLICT (constraints) DO NOTHING finds a row to conflict with
Conflicts(rows, data, constraints) ==
    \E r \in rows : \A c \in constraints : r[c] = data[c]

\* Database.insert(table, data, safe=True, constraints): the rows afterwards
insert(rows, data, id, constraints) ==
    IF Conflicts(rows, data, constraints)
    THEN rows
    ELSE rows \cup {[data EXCEPT !.id = id]}

\* reconnect(tries=3, wait=10)
Tries == 3
Wait == 10

\* a transient failure of the connection: where the driver raises
\* InterfaceError or OperationalError ("cursor": in connection.cursor(),
\* "execute": in cursor.execute() or execute_values()), and for how many
\* tries psycopg2.connect() goes on failing afterwards
Faults == [at : {"none", "cursor", "execute"}, down : 0..Tries]

\* Database.reconnect(): the tries it makes, the seconds it sleeps, and
\* whether it returns (True) or raises the last error (False)
reconnect(down) ==
    [ok |-> down < Tries,
     connects |-> IF down < Tries THEN down + 1 ELSE Tries,
     slept |-> (IF down < Tries THEN down ELSE Tries) * Wait]

NoReconnect == [ok |-> TRUE, connects |-> 0, slept |-> 0]

\* Database.get_cursor(): the reconnect it makes when connection.cursor() raises
get_cursor(fault) ==
    IF fault.at = "cursor" THEN reconnect(fault.down) ELSE NoReconnect

\* what the caller of a store operation meets: the connects tried, the
\* seconds slept, the times the query was sent, and whether the error is raised
Outcome(rc, sent, raised) ==
    [connects |-> rc.connects, slept |-> rc.slept, sent |-> sent, raised |-> raised]

\* Database.execute() (and insert, update, delete, which end in it):
\* get_cursor(), then cursor.execute() with no handler around it
execute(fault) ==
    LET rc == get_cursor(fault)
    IN  IF ~rc.ok THEN Outcome(rc, 0, TRUE)
        ELSE Outcome(rc, 1, fault.at = "execute")

\* Database.fetchall() and fetchone(): get_cursor(), then query() with no
\* handler for the errors of the connection
fetchall(fault) ==
    LET rc == get_cursor(fault)
    IN  IF ~rc.ok THEN Outcome(rc, 0, TRUE)
        ELSE Outcome(rc, 1, fault.at = "execute")

\* Database.execute_many(): get_cursor(), execute_values(), and on an error
\* of the connection reconnect() and execute_values() once more
execute_many(fault) ==
    LET rc == get_cursor(fault)
    IN  IF ~rc.ok THEN Outcome(rc, 0, TRUE)
        ELSE IF fault.at # "execute" THEN Outcome(rc, 1, FALSE)
        ELSE LET again == reconnect(fault.down)
             IN  IF again.ok THEN Outcome(again, 2, FALSE)
                 ELSE Outcome(again, 1, TRUE)

(***************************************************************************)
(* Job: claim, finish, release, add_status                                 *)
(***************************************************************************)
\* a claim whose UPDATE tests the id alone
ClaimById(r, job) == r.id = job.id

\* the WHERE clause of claim(): id = self.id AND timestamp_claimed = 0
ClaimWhere(r, job) == r.id = job.id /\ r.timestamp_claimed = 0

\* the UPDATE of claim() affects a row
Claimable(rows, job) == \E r \in rows : ClaimWhere(r, job)

Claimed(r, t) ==
    [r EXCEPT !.timestamp_claimed = t, !.timestamp_lastclaimed = t,
              !.attempts = @ + 1]

\* Job.claim(): the rows afterwards (JobClaimed is raised iff ~Claimable)
claim(rows, job, t) ==
    {IF ClaimWhere(r, job) THEN Claimed(r, t) ELSE r : r \in rows}

\* Job.finish()
finish(rows, job, t) ==
    IF job.interval = 0
    THEN {r \in rows : r.id # job.id}
    ELSE {IF r.id = job.id
          THEN [r EXCEPT !.timestamp_claimed = 0, !.timestamp_lastclaimed = t]
          ELSE r : r \in rows}

\* a release that leaves out the delay
ReleaseNow(rows, job, t, delay) ==
    {IF r.id = job.id
     THEN [r EXCEPT !.timestamp_claimed = 0, !.timestamp_after = t]
     ELSE r : r \in rows}

\* Job.release(delay)
release(rows, job, t, delay) ==
    {IF r.id = job.id
     THEN [r EXCEPT !.timestamp_claimed = 0, !.timestamp_after = t + delay]
     ELSE r : r \in rows}

\* Job.add_status(text)
add_status(rows, job, text) ==
    {IF r.id = job.id THEN [r EXCEPT !.status = Append(@, text)] ELSE r : r \in rows}

\* the pairs of the rows that finish() deletes
Deleted(rows, job) ==
    IF job.interval = 0
    THEN {<<r.pythonfile, r.remote_id>> : r \in {q \in rows : q.id = job.id}}
    ELSE {}

(***************************************************************************)
(* JobQueue (scheduler/queue.py)                                           *)
(***************************************************************************)
Wildcard == <<"*">>
NoRemoteId == ""

\* a WHERE clause without timestamp_after
MayBeClaimedAnytime(r, t) ==
    /\ r.timestamp_claimed = 0
    /\ (r.interval = 0 \/ r.timestamp_lastclaimed + r.interval < t)

\* a WHERE clause with timestamp_after <= %s
MayBeClaimedAt(r, t) ==
    /\ r.timestamp_claimed = 0
    /\ r.timestamp_after <= t
    /\ (r.interval = 0 \/ r.timestamp_lastclaimed + r.interval < t)

\* the WHERE clause of get_job and of get_all_jobs(restrict_claimable=True)
MayBeClaimed(r, t) ==
    /\ r.timestamp_claimed = 0
    /\ r.timestamp_after < t
    /\ (r.interval = 0 \/ r.timestamp_lastclaimed + r.interval < t)

\* a SELECT without ORDER BY: the rows of S in any order
AnyOrder(S) ==
    {s \in [1..Cardinality(S) -> S] : \A i, j \in DOMAIN s : i # j => s[i] # s[j]}

\* ORDER BY timestamp DESC
NewestFirst(S) ==
    {s \in [1..Cardinality(S) -> S] :
        /\ \A i, j \in DOMAIN s : i # j => s[i] # s[j]
        /\ \A i, j \in DOMAIN s : i < j => s[i].timestamp >= s[j].timestamp}

\* ORDER BY timestamp ASC: every order of S the store may return
OrderedByTimestamp(S) ==
    {s \in [1..Cardinality(S) -> S] :
        /\ \A i, j \in DOMAIN s : i # j => s[i] # s[j]
        /\ \A i, j \in DOMAIN s : i < j => s[i].timestamp <= s[j].timestamp}

\* Job.get_by_data(row): the handle; of the row's copy it keeps what the
\* dispatcher and the worker read later
Job(r) ==
    [id |-> r.id, pythonfile |-> r.pythonfile, interval |-> r.interval,
     timestamp |-> r.timestamp]

\* JobQueue.get_all_jobs: the lists of rows it may return at time t
get_all_jobs(rows, pythonfile, remote_id, restrict_claimable, t) ==
    LET filtered == {r \in rows :
                        IF remote_id # NoRemoteId THEN r.remote_id = remote_id
                        ELSE IF pythonfile # Wildcard THEN r.pythonfile = pythonfile
                        ELSE r.pythonfile # <<>>}
        selected == IF restrict_claimable
                    THEN {r \in filtered : MayBeClaimed(r, t)}
                    ELSE filtered
    IN  OrderedByTimestamp(selected)

\* JobQueue.get_job(pythonfile, timestamp): what it may return at time t,
\* the list of the one row or the empty list for None
get_job(rows, pythonfile, timestamp, t) ==
    LET at == IF timestamp < 0 THEN t ELSE timestamp
        selected == {r \in rows : r.pythonfile = pythonfile /\ MayBeClaimed(r, at)}
    IN  IF selected = {} THEN {<<>>}
        ELSE {<<s[1]>> : s \in OrderedByTimestamp(selected)}

\* JobQueue.get_place_in_queue(job): the numbers it may return at time t,
\* job being the data of the handle
get_place_in_queue(rows, job, t) ==
    IF job.timestamp_claimed > 0 THEN {0}
    ELSE {Cardinality({k \in DOMAIN all_queued :
                          \/ all_queued[k].timestamp < job.timestamp
                          \/ all_queued[k].timestamp_claimed > 0}) :
            all_queued \in get_all_jobs(rows, job.pythonfile, NoRemoteId, TRUE, t)}

\* JobQueue.release_all(): UPDATE jobs SET timestamp_claimed = 0
release_all(rows) == {[r EXCEPT !.timestamp_claimed = 0] : r \in rows}

\* JobQueue.add_job: the row it hands to Database.insert
NewJob(pythonfile, remote_id, claim_after, interval, t) ==
    [id |-> 0, pythonfile |-> pythonfile, remote_id |-> remote_id,
     timestamp |-> t, timestamp_claimed |-> 0, timestamp_lastclaimed |-> 0,
     timestamp_after |-> claim_after, interval |-> interval, attempts |-> 0,
     status |-> <<>>]

PairConstraint == {"pythonfile", "remote_id"}

\* a has_jobs() that counts every row of the table
HasRows(rows, t) ==
    \E s \in get_all_jobs(rows, Wildcard, NoRemoteId, FALSE, t) : Len(s) > 0

\* Scheduler.has_jobs(): len(self._manager.queue.get_all_jobs()) > 0
has_jobs(rows, t) ==
    \E s \in get_all_jobs(rows, Wildcard, NoRemoteId, TRUE, t) : Len(s) > 0

\* no query made yet
NoResult == [op |-> "none"]

(***************************************************************************)
(* Initial state: the manager is constructed and its thread started        *)
(***************************************************************************)
Init ==
    /\ now = T0
    /\ jobs = {}
    /\ nextId = 1
    /\ enqueued = {}
    /\ late = {}
    /\ looping = TRUE
    /\ mpc = "loop"
    /\ fetched = <<>>
    /\ passed = <<>>
    /\ pool = <<>>
    /\ worker_map = <<>>
    /\ sys_modules = <<>>
    /\ ret = NoResult
    /\ claims = <<>>

\* the table that a run which ended uncleanly has left: a job it had claimed
Leftover ==
    {[NewJob(FileA, "x", 0, interval, T0 - 1) EXCEPT
         !.id = 1, !.timestamp_claimed = T0 - 1, !.timestamp_lastclaimed = T0 - 1,
         !.attempts = 1] : interval \in Intervals}

\* the state before the manager of the next run is constructed
InitRestart ==
    /\ now = T0
    /\ \E r \in Leftover : jobs = {r}
    /\ nextId = 2
    /\ enqueued = {<<FileA, "x">>}
    /\ late = {}
    /\ looping = TRUE
    /\ mpc = "init"
    /\ fetched = <<>>
    /\ passed = <<>>
    /\ pool = <<>>
    /\ worker_map = <<>>
    /\ sys_modules = <<>>
    /\ ret = NoResult
    /\ claims = <<>>

(***************************************************************************)
(* Client threads                                                          *)
(***************************************************************************)
\* the number of Tick steps that lead from T0 to t
TicksTo(t) == ((t - T0) % RetryDelay) + ((t - T0) \div RetryDelay)

\* the clock moves on, by a second or by the retry delay
Tick(ticks) ==
    /\ TicksTo(now) < ticks
    /\ \E d \in {1, RetryDelay} : now' = now + d
    /\ UNCHANGED <<client, jobs, nextId, enqueued, late, looping, mpc, fetched, passed,
                   pool, worker_map, sys_modules>>

\* a time kept in a row, one second later, counted from the clock: a time
\* further back than every interval is left as it is, since timestamp_after < now
\* and timestamp_lastclaimed + interval < now are true of it from now on
Earlier(v, t) == IF v + MaxInterval < t THEN v ELSE v - 1

\* a row one second later. timestamp is compared with the timestamp of
\* other rows only, timestamp_claimed with 0 only, and attempts is read by
\* no code: the first two are kept and the counter is kept up to 1
Aged(r, t) ==
    [r EXCEPT !.timestamp_after = Earlier(@, t),
              !.timestamp_lastclaimed = Earlier(@, t),
              !.attempts = IF @ > 1 THEN 1 ELSE @]

\* the clock moves on by a second, for ever: once the clients have made
\* their calls, the times of the rows are counted from the clock. The
\* seconds pass while a worker is inside work(): a pass of the dispatcher
\* and its time.sleep(0.1) are short beside a second
TickForever(ticks) ==
    /\ TicksTo(now) >= ticks
    /\ \E t \in DOMAIN pool : \E i \in DOMAIN pool[t] : pool[t][i].pc = "work"
    /\ jobs' = {Aged(r, now) : r \in jobs}
    /\ UNCHANGED <<client, now, nextId, enqueued, late, looping, mpc, fetched, passed,
                   pool, worker_map, sys_modules>>

\* JobQueue.add_job(pythonfile, details, remote_id, claim_after, interval)
\* called with q = (pythonfile, remote_id, claim_after, interval)
add_job(q, adds) ==
    LET data == NewJob(q[1], q[2], q[3], q[4], now)
        rows == insert(jobs, data, nextId, PairConstraint)
    IN  /\ rows # jobs => nextId <= adds
        /\ jobs' = rows
        /\ nextId' = IF rows # jobs THEN nextId + 1 ELSE nextId
        /\ enqueued' = enqueued \cup {<<q[1], q[2]>>}
        /\ late' = IF rows # jobs /\ ~looping THEN late \cup {nextId} ELSE late
        /\ UNCHANGED <<now, looping, mpc, fetched, passed, pool, worker_map, sys_modules>>

\* a client enqueues a job
AddJob(requests, adds) ==
    \E q \in requests : add_job(q, adds) /\ UNCHANGED client

\* WorkerManager.abort() (Scheduler.end())
Abort ==
    /\ looping' = FALSE
    /\ UNCHANGED <<client, now, jobs, nextId, enqueued, late, mpc, fetched, passed, pool,
                   worker_map, sys_modules>>

(***************************************************************************)
(* BasicWorker (dmi_scheduler/worker.py)                                   *)
(***************************************************************************)
\* BasicWorker.__init__ and Thread.start(): the thread is inside work()
NewWorker(job) ==
    [job |-> job, interrupted |-> INTERRUPT_NONE, pc |-> "work"]

\* Thread.is_alive()
is_alive(w) == w.pc # "dead"

\* BasicWorker.request_abort(level)
request_abort(w, level) == [w EXCEPT !.interrupted = level]

\* a handler that releases the job at either level
OnInterruptRelease(rows, w, t) ==
    IF w.interrupted = INTERRUPT_NONE THEN rows
    ELSE release(rows, w.job, t, RetryDelay)

\* the except WorkerInterruptedException branch of BasicWorker.run
OnInterrupt(rows, w, t) ==
    IF w.interrupted = INTERRUPT_RETRY THEN release(rows, w.job, t, RetryDelay)
    ELSE IF w.interrupted = INTERRUPT_CANCEL THEN finish(rows, w.job, t)
    ELSE rows

\* where run() stands after the handler: before self.after_work()
AfterInterrupt(w) ==
    IF w.interrupted = INTERRUPT_RETRY THEN "after_retry"
    ELSE IF w.interrupted = INTERRUPT_CANCEL THEN "after_cancel"
    ELSE "after_ignored"

BeforeAfterWork == {"after_retry", "after_cancel", "after_ignored", "after_crash"}

Workers == {<<t, i>> : t \in WorkerTypes, i \in 1..(MaxAdds + 1)}
InPool(t, i) == t \in DOMAIN pool /\ i \in DOMAIN pool[t]

\* a run() that ends after work() without after_work()
WorkReturnsOnly(t, i) ==
    /\ InPool(t, i)
    /\ pool[t][i].pc = "work"
    /\ pool' = [pool EXCEPT ![t][i].pc = "dead"]
    /\ UNCHANGED <<client, now, jobs, nextId, enqueued, late, looping, mpc, fetched, passed,
                   worker_map, sys_modules>>

\* work() returns; run() goes on to after_work(), which finishes the job,
\* and the thread ends
WorkReturns(t, i) ==
    /\ InPool(t, i)
    /\ pool[t][i].pc = "work"
    /\ jobs' = finish(jobs, pool[t][i].job, now)
    /\ enqueued' = enqueued \ Deleted(jobs, pool[t][i].job)
    /\ pool' = [pool EXCEPT ![t][i].pc = "dead"]
    /\ UNCHANGED <<client, now, nextId, late, looping, mpc, fetched, passed, worker_map,
                   sys_modules>>

\* work() raises WorkerInterruptedException; run() handles it and calls abort()
WorkInterrupted(t, i) ==
    /\ InPool(t, i)
    /\ pool[t][i].pc = "work"
    /\ jobs' = OnInterrupt(jobs, pool[t][i], now)
    /\ enqueued' = IF pool[t][i].interrupted = INTERRUPT_CANCEL
                   THEN enqueued \ Deleted(jobs, pool[t][i].job)
                   ELSE enqueued
    /\ pool' = [pool EXCEPT ![t][i].pc = AfterInterrupt(pool[t][i])]
    /\ UNCHANGED <<client, now, nextId, late, looping, mpc, fetched, passed, worker_map,
                   sys_modules>>

\* a crash handler that releases the job for a retry
WorkCrashesReleases(t, i) ==
    /\ InPool(t, i)
    /\ pool[t][i].pc = "work"
    /\ jobs' = release(add_status(jobs, pool[t][i].job, "Crash during execution"),
                       pool[t][i].job, now, RetryDelay)
    /\ pool' = [pool EXCEPT ![t][i].pc = "after_crash"]
    /\ UNCHANGED <<client, now, nextId, enqueued, late, looping, mpc, fetched, passed,
                   worker_map, sys_modules>>

\* work() raises another exception; run() notes the crash on the job
WorkCrashes(t, i) ==
    /\ InPool(t, i)
    /\ pool[t][i].pc = "work"
    /\ jobs' = add_status(jobs, pool[t][i].job, "Crash during execution")
    /\ pool' = [pool EXCEPT ![t][i].pc = "after_crash"]
    /\ UNCHANGED <<client, now, nextId, enqueued, late, looping, mpc, fetched, passed, worker_map,
                   sys_modules>>

\* an after_work() that does nothing to the job
AfterWorkPass(t, i) ==
    /\ InPool(t, i)
    /\ pool[t][i].pc \in BeforeAfterWork
    /\ pool' = [pool EXCEPT ![t][i].pc = "dead"]
    /\ UNCHANGED <<client, now, jobs, nextId, enqueued, late, looping, mpc, fetched, passed,
                   worker_map, sys_modules>>

\* the self.after_work() that ends run(), after either except branch
AfterWork(t, i) ==
    /\ InPool(t, i)
    /\ pool[t][i].pc \in BeforeAfterWork
    /\ jobs' = finish(jobs, pool[t][i].job, now)
    /\ enqueued' = enqueued \ Deleted(jobs, pool[t][i].job)
    /\ pool' = [pool EXCEPT ![t][i].pc = "dead"]
    /\ UNCHANGED <<client, now, nextId, late, looping, mpc, fetched, passed, worker_map,
                   sys_modules>>

\* worker.request_abort(level), called on the worker object itself
RequestAbort(t, i) ==
    /\ InPool(t, i)
    /\ pool[t][i].pc = "work"
    /\ \E level \in Levels : pool' = [pool EXCEPT ![t][i] = request_abort(@, level)]
    /\ UNCHANGED <<client, now, jobs, nextId, enqueued, late, looping, mpc, fetched, passed,
                   worker_map, sys_modules>>

(***************************************************************************)
(* WorkerManager (dmi_scheduler/manager.py)                                *)
(***************************************************************************)
\* the list after "for worker in all_workers: if not worker.is_alive():
\* all_workers.remove(worker)", the iterator standing before index i
RECURSIVE ReapFrom(_, _)
ReapFrom(all_workers, i) ==
    IF i > Len(all_workers) THEN all_workers
    ELSE IF ~is_alive(all_workers[i])
         THEN ReapFrom(SubSeq(all_workers, 1, i - 1)
                         \o SubSeq(all_workers, i + 1, Len(all_workers)), i + 1)
         ELSE ReapFrom(all_workers, i + 1)

\* a cap test with > for >=
AboveMaxWorkers(workers, worker_class) == Len(workers) > worker_class.max_workers

\* len(self._worker_pool[worker_type]) >= worker_class.max_workers
AtMaxWorkers(workers, worker_class) == Len(workers) >= worker_class.max_workers

\* sys.modules after get_worker_for_file(pythonfile)
ModulesAfter(pythonfile) ==
    LET worker_type == get_worker_type_for_file(pythonfile)
    IN  IF worker_type \in DOMAIN worker_map \/ worker_type \in DOMAIN sys_modules
        THEN sys_modules
        ELSE Put(sys_modules, worker_type, pythonfile)

\* WorkerManager.get_worker_for_file(pythonfile): the class, or NoClass for None
get_worker_for_file(pythonfile) ==
    LET worker_type == get_worker_type_for_file(pythonfile)
    IN  IF worker_type \in DOMAIN worker_map
        THEN worker_map[worker_type]
        ELSE ClassIn(ModulesAfter(pythonfile)[worker_type])

\* WorkerManager.__init__ and the start of its thread: the handler of the
\* store, database_setup() with its CREATE TABLE IF NOT EXISTS, the queue;
\* none of them writes a row
Start ==
    /\ mpc = "init"
    /\ mpc' = "loop"
    /\ UNCHANGED <<client, now, jobs, nextId, enqueued, late, looping, fetched, passed, pool,
                   worker_map, sys_modules>>

\* a loop that does not test the flag
LoopForever == TRUE

\* while self.looping:
LoopCondition == looping

\* run() tests self.looping
Loop ==
    /\ mpc = "loop"
    /\ mpc' = IF LoopCondition THEN "fetch" ELSE "stop"
    /\ UNCHANGED <<client, now, jobs, nextId, enqueued, late, looping, fetched, passed, pool,
                   worker_map, sys_modules>>

\* delegate(): jobs = self.queue.get_all_jobs()
Fetch ==
    /\ mpc = "fetch"
    /\ \E rows \in get_all_jobs(jobs, Wildcard, NoRemoteId, TRUE, now) :
           fetched' = [k \in DOMAIN rows |-> Job(rows[k])]
    /\ passed' = <<>>
    /\ mpc' = "reap"
    /\ UNCHANGED <<client, now, jobs, nextId, enqueued, late, looping, pool, worker_map,
                   sys_modules>>

\* the errors of the store that the SELECT of get_all_jobs may raise
StoreErrors == {"ProgrammingError", "OperationalError"}

\* delegate(): get_all_jobs() meets an error of the store. It catches
\* psycopg2.ProgrammingError and returns the empty list; any other error
\* leaves get_all_jobs, delegate() and run(), and the thread ends
FetchFails ==
    /\ mpc = "fetch"
    /\ \E error \in StoreErrors :
          IF error = "ProgrammingError"
          THEN fetched' = <<>> /\ mpc' = "reap"
          ELSE fetched' = fetched /\ mpc' = "crashed"
    /\ passed' = <<>>
    /\ UNCHANGED <<client, now, jobs, nextId, enqueued, late, looping, pool, worker_map,
                   sys_modules>>

\* delegate(): clean up workers that have finished processing
Reap ==
    /\ mpc = "reap"
    /\ pool' = [t \in DOMAIN pool |-> ReapFrom(pool[t], 1)]
    /\ mpc' = IF fetched = <<>> THEN "loop" ELSE "dispatch"
    /\ UNCHANGED <<client, now, jobs, nextId, enqueued, late, looping, fetched, passed,
                   worker_map, sys_modules>>

\* the iteration of the for loop comes to job.claim(), and the claim succeeds
Starts(job) ==
    LET worker_type == get_worker_type_for_file(job.pythonfile)
        worker_class == get_worker_for_file(job.pythonfile)
        workers == IF worker_type \in DOMAIN pool THEN pool[worker_type] ELSE <<>>
    IN  /\ FileExists(job.pythonfile)
        /\ worker_class # NoClass
        /\ ~AtMaxWorkers(workers, worker_class)
        /\ Claimable(jobs, job)

\* delegate(): one iteration of "for job in jobs"; after the last one,
\* time.sleep(0.1) and the return to run()
Dispatch ==
    /\ mpc = "dispatch"
    /\ fetched # <<>>
    /\ fetched' = Tail(fetched)
    /\ mpc' = IF Tail(fetched) = <<>> THEN "loop" ELSE "dispatch"
    /\ passed' = IF Tail(fetched) = <<>> THEN <<>>
                  ELSE Append(passed, [job |-> Head(fetched),
                                       started |-> Starts(Head(fetched))])
    /\ LET job == Head(fetched)
           pythonfile == job.pythonfile
           worker_type == get_worker_type_for_file(pythonfile)
           worker_class == get_worker_for_file(pythonfile)
           pool1 == IF worker_type \in DOMAIN pool THEN pool
                    ELSE Put(pool, worker_type, <<>>)
       IN  IF ~FileExists(pythonfile)
           THEN /\ jobs' = finish(add_status(jobs, job,
                                    "Job script does not exist. Cancelling."), job, now)
                /\ enqueued' = enqueued \ Deleted(jobs, job)
                /\ UNCHANGED <<pool, worker_map, sys_modules>>
           ELSE /\ sys_modules' = ModulesAfter(pythonfile)
                /\ worker_map' = IF worker_class = NoClass THEN worker_map
                                 ELSE Put(worker_map, worker_type, worker_class)
                /\ UNCHANGED enqueued
                /\ IF worker_class = NoClass
                   THEN UNCHANGED <<jobs, pool>>
                   ELSE IF AtMaxWorkers(pool1[worker_type], worker_class)
                   THEN jobs' = jobs /\ pool' = pool1
                   ELSE IF Claimable(jobs, job)
                   THEN /\ jobs' = claim(jobs, job, now)
                        /\ pool' = [pool1 EXCEPT ![worker_type] =
                                      Append(@, NewWorker(job))]
                   ELSE jobs' = jobs /\ pool' = pool1
    /\ UNCHANGED <<client, now, nextId, late, looping>>

\* run(): worker.request_abort() on every worker of the pool
StopWorkers ==
    /\ mpc = "stop"
    /\ pool' = [t \in DOMAIN pool |->
                   [i \in DOMAIN pool[t] |-> request_abort(pool[t][i], DefaultLevel)]]
    /\ mpc' = "join"
    /\ UNCHANGED <<client, now, jobs, nextId, enqueued, late, looping, fetched, passed,
                   worker_map, sys_modules>>

\* run(): worker.join() on every worker of the pool, then the thread ends
JoinWorkers ==
    /\ mpc = "join"
    /\ \A t \in DOMAIN pool : \A i \in DOMAIN pool[t] : ~is_alive(pool[t][i])
    /\ mpc' = "done"
    /\ UNCHANGED <<client, now, jobs, nextId, enqueued, late, looping, fetched, passed, pool,
                   worker_map, sys_modules>>

\* the first worker of the list that works on the job, 0 if there is none
WorkerFor(workers, job) ==
    IF \E i \in DOMAIN workers : workers[i].job.id = job.id
    THEN CHOOSE i \in DOMAIN workers :
            /\ workers[i].job.id = job.id
            /\ \A k \in 1..(i - 1) : workers[k].job.id # job.id
    ELSE 0

\* WorkerManager.request_interrupt(job, interrupt_level): the pool afterwards
request_interrupt(job, interrupt_level) ==
    IF job.pythonfile \notin DOMAIN pool THEN pool
    ELSE LET i == WorkerFor(pool[job.pythonfile], job)
         IN  IF i = 0 THEN pool
             ELSE [pool EXCEPT ![job.pythonfile][i] = request_abort(@, interrupt_level)]

\* the Job handles a client may hold: rows of the table, jobs of the workers
Handles ==
    {Job(r) : r \in jobs}
        \cup {pool[x[1]][x[2]].job : x \in {y \in Workers : InPool(y[1], y[2])}}

\* a client calls manager.request_interrupt(job, level)
RequestInterrupt ==
    \E job \in Handles, level \in Levels :
        /\ pool' = request_interrupt(job, level)
        /\ UNCHANGED <<client, now, jobs, nextId, enqueued, late, looping, mpc, fetched, passed,
                       worker_map, sys_modules>>

(***************************************************************************)
(* Callers of the queue: threads that hold a JobQueue and Job handles      *)
(***************************************************************************)
QueueFiles == {FileA, FileB}
QueueRequests == QueueFiles \X RemoteIds \X ClaimAfters \X Intervals
\* the timestamp argument of get_job: the default, or a time of the caller's
Timestamps == {0 - 1, T0 + RetryDelay}
\* the delay argument of release
Delays == {0, RetryDelay}

\* the log of the claim() calls on a row, empty when it is unclaimed
Log(id) == IF id \in DOMAIN claims THEN claims[id] ELSE <<>>

\* add_job, the caller keeping what the INSERT did
CallAddJob(adds) ==
    \E q \in QueueRequests :
        /\ add_job(q, adds)
        /\ ret' = [op |-> "add_job", at |-> now, inserted |-> jobs' # jobs]
        /\ UNCHANGED claims

\* add_job, the caller keeping the handle it returns:
\* Job.get_by_data(data), of the data that was handed to the INSERT
AddJobReturns(adds) ==
    \E q \in QueueRequests :
        /\ add_job(q, adds)
        /\ ret' = [op |-> "add_job", at |-> now,
                   job |-> NewJob(q[1], q[2], q[3], q[4], now)]
        /\ UNCHANGED claims

\* job.claim() by a caller that holds the handle of a row
CallClaim ==
    \E r \in jobs :
        /\ Len(Log(r.id)) < MaxCalls
        /\ r.attempts < MaxAttempts
        /\ jobs' = claim(jobs, Job(r), now)
        /\ claims' = Put(claims, r.id,
                Append(Log(r.id), IF Claimable(jobs, Job(r)) THEN "ok" ELSE "JobClaimed"))
        /\ UNCHANGED <<now, nextId, enqueued, late, looping, mpc, fetched, passed, pool,
                       worker_map, sys_modules, ret>>

\* job.finish() by a caller
CallFinish ==
    \E r \in jobs :
        /\ jobs' = finish(jobs, Job(r), now)
        /\ enqueued' = enqueued \ Deleted(jobs, Job(r))
        /\ claims' = Put(claims, r.id, <<>>)
        /\ UNCHANGED <<now, nextId, late, looping, mpc, fetched, passed, pool, worker_map,
                       sys_modules, ret>>

\* job.release(delay) by a caller
CallRelease ==
    \E r \in jobs, delay \in Delays :
        /\ jobs' = release(jobs, Job(r), now, delay)
        /\ claims' = Put(claims, r.id, <<>>)
        /\ UNCHANGED <<now, nextId, enqueued, late, looping, mpc, fetched, passed, pool,
                       worker_map, sys_modules, ret>>

\* queue.get_job(pythonfile, timestamp)
GetJob ==
    \E f \in QueueFiles, ts \in Timestamps :
        \E rows \in get_job(jobs, f, ts, now) :
            /\ ret' = [op |-> "get_job", at |-> now, timestamp |-> ts, rows |-> rows]
            /\ UNCHANGED <<now, jobs, nextId, enqueued, late, looping, mpc, fetched, passed,
                           pool, worker_map, sys_modules, claims>>

\* queue.get_all_jobs(pythonfile, remote_id, restrict_claimable)
GetAllJobs ==
    \E f \in QueueFiles \cup {Wildcard}, rid \in RemoteIds \cup {NoRemoteId},
       restrict \in BOOLEAN :
        \E rows \in get_all_jobs(jobs, f, rid, restrict, now) :
            /\ ret' = [op |-> "get_all_jobs", at |-> now,
                       restrict_claimable |-> restrict, rows |-> rows]
            /\ UNCHANGED <<now, jobs, nextId, enqueued, late, looping, mpc, fetched, passed,
                           pool, worker_map, sys_modules, claims>>

\* the add_job calls for a queue of one type
PlaceRequests == {FileA} \X {"x", "y"} \X ClaimAfters \X {0}

\* queue.get_place_in_queue(job), the handle just read from the table
GetPlaceInQueue ==
    \E r \in jobs :
        \E place \in get_place_in_queue(jobs, r, now) :
            /\ ret' = [op |-> "get_place_in_queue", at |-> now, job |-> r,
                       place |-> place]
            /\ UNCHANGED <<now, jobs, nextId, enqueued, late, looping, mpc, fetched, passed,
                           pool, worker_map, sys_modules, claims>>

\* the store operation has met the fault while the clock went on
StoreCall(op, fault, outcome) ==
    /\ TicksTo(now) + (outcome.slept \div Wait) <= StoreTicks
    /\ now' = now + outcome.slept
    /\ ret' = [op |-> op, at |-> now, fault |-> fault, outcome |-> outcome]

\* add_job on a store whose connection may fail: the INSERT goes through
\* Database.insert and Database.execute, and an error leaves add_job
StoreInsert ==
    \E q \in QueueRequests, fault \in Faults :
        LET outcome == execute(fault)
            data == NewJob(q[1], q[2], q[3], q[4], now)
            rows == IF outcome.raised THEN jobs
                    ELSE insert(jobs, data, nextId, PairConstraint)
        IN  /\ StoreCall("execute", fault, outcome)
            /\ rows # jobs => nextId <= QueryAdds
            /\ jobs' = rows
            /\ nextId' = IF rows # jobs THEN nextId + 1 ELSE nextId
            /\ enqueued' = IF outcome.raised THEN enqueued
                           ELSE enqueued \cup {<<q[1], q[2]>>}
            /\ UNCHANGED <<late, looping, mpc, fetched, passed, pool, worker_map,
                           sys_modules, claims>>

\* get_all_jobs on such a store: the SELECT goes through Database.fetchall
StoreFetchAll ==
    \E fault \in Faults :
        /\ StoreCall("fetchall", fault, fetchall(fault))
        /\ UNCHANGED <<jobs, nextId, enqueued, late, looping, mpc, fetched, passed, pool,
                       worker_map, sys_modules, claims>>

\* Database.execute_many on such a store
StoreExecuteMany ==
    \E fault \in Faults :
        /\ StoreCall("execute_many", fault, execute_many(fault))
        /\ UNCHANGED <<jobs, nextId, enqueued, late, looping, mpc, fetched, passed, pool,
                       worker_map, sys_modules, claims>>

\* a client calls scheduler.has_jobs() and keeps the answer
HasJobs ==
    /\ ret' = [op |-> "has_jobs", result |-> has_jobs(jobs, now)]
    /\ UNCHANGED <<now, jobs, nextId, enqueued, late, looping, mpc, fetched, passed, pool,
                   worker_map, sys_modules, claims>>

(***************************************************************************)
(* Specifications                                                          *)
(***************************************************************************)
\* the steps of the worker threads
WorkerStep ==
    \/ \E w \in Workers : WorkReturns(w[1], w[2])
    \/ \E w \in Workers : WorkInterrupted(w[1], w[2])
    \/ \E w \in Workers : WorkCrashes(w[1], w[2])
    \/ \E w \in Workers : AfterWork(w[1], w[2])

\* the steps of the dispatcher thread
ManagerStep ==
    \/ Loop
    \/ Fetch
    \/ Reap
    \/ Dispatch
    \/ StopWorkers
    \/ JoinWorkers

Next(requests, adds, ticks) ==
    \/ Tick(ticks)
    \/ AddJob(requests, adds)
    \/ Abort
    \/ RequestInterrupt
    \/ \E w \in Workers : RequestAbort(w[1], w[2])
    \/ WorkerStep
    \/ ManagerStep

\* the scheduler with two jobs
Spec == Init /\ [][Next(Requests, MaxAdds, MaxTicks)]_vars

\* the scheduler with one job, over a longer time
SpecSolo == Init /\ [][Next(Requests, SoloAdds, SoloTicks)]_vars

\* every thread that can take a step is scheduled again: the dispatcher
\* goes on, and a worker's work() returns or raises, and run() goes on
Fairness == WF_vars(ManagerStep) /\ WF_vars(WorkerStep)

FairSolo == SpecSolo /\ Fairness

\* the scheduler with one job and a store that may fail
SpecStore == Init /\ [][Next(Requests, SoloAdds, SoloTicks) \/ FetchFails]_vars

\* the scheduler started on the table of a run that ended uncleanly
SpecRestart == InitRestart /\ [][Start \/ Next(Requests, MaxAdds, SoloTicks)]_vars

\* the scheduler with jobs whose file may be missing or without a class
SpecOddFiles == Init /\ [][Next(OddFileRequests, MaxAdds, MaxTicks)]_vars

NextQueue(adds, ticks) ==
    \/ Tick(ticks)
    \/ CallAddJob(adds)
    \/ CallClaim
    \/ CallFinish
    \/ CallRelease

NextQuery ==
    \/ NextQueue(QueryAdds, QueryTicks)
    \/ GetJob
    \/ GetAllJobs

NextAdd ==
    \/ Tick(QueryTicks)
    \/ AddJobReturns(QueryAdds)
    \/ CallClaim
    \/ CallFinish
    \/ CallRelease

\* the callers of one job, keeping the handles that add_job returns
SpecAdd == Init /\ [][NextAdd]_vars

NextPlace ==
    \/ Tick(QueueTicks)
    \/ AddJob(PlaceRequests, QueueAdds)
    \/ CallClaim
    \/ CallFinish
    \/ CallRelease
    \/ GetPlaceInQueue

\* a queue of two jobs of one type, and the callers that ask for a place
SpecPlace == Init /\ [][NextPlace]_vars

NextList ==
    \/ Tick(QueueTicks)
    \/ AddJob(PlaceRequests, QueueAdds)
    \/ CallClaim
    \/ GetAllJobs

\* a queue of two jobs of one type, and the callers that list it
SpecList == Init /\ [][NextList]_vars

NextDatabase ==
    \/ Tick(StoreTicks)
    \/ StoreInsert
    \/ StoreFetchAll
    \/ StoreExecuteMany

\* the operations of the store on a connection that may fail
SpecDatabase == Init /\ [][NextDatabase]_vars

NextGet ==
    \/ Tick(QueueTicks)
    \/ AddJob(PlaceRequests, QueueAdds)
    \/ CallClaim
    \/ GetJob

\* a queue of two jobs of one type, and the callers that ask for the next job
SpecGet == Init /\ [][NextGet]_vars

NextHas ==
    \/ Tick(MaxTicks)
    \/ AddJob(Requests, MaxAdds)
    \/ Abort
    \/ WorkerStep
    \/ ManagerStep
    \/ HasJobs

\* the scheduler with two jobs, and a client that asks whether it has jobs
SpecHas == Init /\ [][NextHas]_vars

\* the dispatcher thread while nobody ends the scheduler
ManagerLoops ==
    \/ Loop
    \/ Fetch
    \/ Reap
    \/ Dispatch

\* the worker threads whose work() returns
WorkerEnds == \E w \in Workers : WorkReturns(w[1], w[2])

\* the clients enqueue their jobs in the first seconds
AddJobEarly ==
    /\ TicksTo(now) < StarveTicks
    /\ AddJob(StarveRequests, StarveAdds)

NextStarve ==
    \/ Tick(StarveTicks)
    \/ TickForever(StarveTicks)
    \/ AddJobEarly
    \/ ManagerLoops
    \/ WorkerEnds

\* jobs of one worker type enqueued in the first seconds, a dispatcher that
\* loops for ever and workers that end, while time goes on
SpecStarve == Init /\ [][NextStarve]_vars

\* the dispatcher keeps looping, every work() returns, and the clock goes on
FairStarve ==
    /\ SpecStarve
    /\ WF_vars(ManagerLoops)
    /\ WF_vars(WorkerEnds)
    /\ WF_vars(TickForever(StarveTicks))

\* the queue and the jobs in the hands of their callers, no dispatcher running
SpecQueue == Init /\ [][NextQueue(QueueAdds, QueueTicks)]_vars

\* the same callers, one job over a longer time, and the queries
SpecQuery == Init /\ [][NextQuery]_vars

(***************************************************************************)
(* Properties                                                              *)
(***************************************************************************)
\* the workers in the pool, and those of them whose thread is alive
PoolWorkers == {w \in Workers : InPool(w[1], w[2])}
LiveWorkers == {w \in PoolWorkers : is_alive(pool[w[1]][w[2]])}
WorkerAt(w) == pool[w[1]][w[2]]

\* C1 (SpecQueue). Exclusive claim: of the claim() calls made on a row since
\* it was unclaimed, in any interleaving, exactly the first succeeds and the
\* row is claimed from then on; every other call fails with JobClaimed.
C1_OneWinner ==
    \A r \in jobs :
        /\ r.timestamp_claimed # 0 <=> Log(r.id) # <<>>
        /\ Log(r.id) # <<>> =>
              /\ Log(r.id)[1] = "ok"
              /\ \A k \in 2..Len(Log(r.id)) : Log(r.id)[k] = "JobClaimed"

\* a claim() call that succeeds takes timestamp_claimed from 0 to now and
\* leaves the other rows alone; one that fails leaves the table unchanged
C1_ClaimStep ==
    \A id \in DOMAIN claims' :
        Len(claims'[id]) > Len(Log(id)) =>
            IF claims'[id][Len(claims'[id])] = "ok"
            THEN /\ \E r \in jobs : r.id = id /\ r.timestamp_claimed = 0
                 /\ \E r \in jobs' : r.id = id /\ r.timestamp_claimed = now
                 /\ {r \in jobs : r.id # id} = {r \in jobs' : r.id # id}
            ELSE jobs' = jobs

\* C1: exactly one of K >= 1 concurrent claim() calls on an unclaimed row
\* succeeds and sets timestamp_claimed from 0 to now; every other call fails
\* with JobClaimed and leaves the row unchanged.
C1_ExclusiveClaim == []C1_OneWinner /\ [][C1_ClaimStep]_vars

\* three callers have claimed the same row: one winner, two losers
C1_Witness ==
    \E r \in jobs : Log(r.id) = <<"ok", "JobClaimed", "JobClaimed">>

\* C2 (Spec). At most one worker per job: no two live workers of the pool
\* hold the same job id.
C2_OneWorkerPerJob ==
    \A v, w \in LiveWorkers : v # w => WorkerAt(v).job.id # WorkerAt(w).job.id

\* C3 (Spec). Concurrency cap: for every worker type t, the pool for t holds
\* at most max_workers workers of the class resolved for t.
C3_ConcurrencyCap ==
    \A t \in DOMAIN pool :
        /\ t \in DOMAIN worker_map
        /\ Len(pool[t]) <= worker_map[t].max_workers

\* the dispatcher stands before a claimable job whose type has max_workers = 2
\* and two workers in the pool
C3_Witness ==
    /\ mpc = "dispatch"
    /\ fetched # <<>>
    /\ Claimable(jobs, Head(fetched))
    /\ LET t == get_worker_type_for_file(Head(fetched).pythonfile)
       IN  /\ t \in DOMAIN pool
           /\ t \in DOMAIN worker_map
           /\ worker_map[t].max_workers = 2
           /\ Len(pool[t]) = 2

\* at most one row per (pythonfile, remote_id), and exactly one for every pair
\* that was added and not deleted by finish since
C4_Pairs ==
    /\ \A r1, r2 \in jobs :
          r1.pythonfile = r2.pythonfile /\ r1.remote_id = r2.remote_id => r1 = r2
    /\ {<<r.pythonfile, r.remote_id>> : r \in jobs} = enqueued

\* an add_job call changes no existing row and adds at most one
C4_AddStep ==
    ret' # ret =>
        /\ jobs \subseteq jobs'
        /\ Cardinality(jobs') <= Cardinality(jobs) + 1
        /\ ~ret'.inserted => jobs' = jobs

\* C4 (SpecQueue). Unique enqueue: after any sequence of add_job calls the
\* table holds at most one row per pair (pythonfile, remote_id), exactly one if
\* the pair was added and its row not deleted by finish since; a conflicting
\* add_job returns normally and changes no existing row.
C4_UniqueEnqueue == []C4_Pairs /\ [][C4_AddStep]_vars

\* two pairs are in the table and the last add_job met a conflict
C4_Witness ==
    /\ ret.op = "add_job"
    /\ ~ret.inserted
    /\ Cardinality(jobs) = 2

\* C5 (SpecQuery). Eligibility filter: get_job(type) and
\* get_all_jobs(restrict_claimable=True) return a row only if at query time
\* timestamp_claimed = 0, timestamp_after < now and (interval = 0 or
\* timestamp_lastclaimed + interval < now).
C5_EligibilityFilter ==
    (\/ ret.op = "get_job" /\ ret.timestamp < 0
     \/ ret.op = "get_all_jobs" /\ ret.restrict_claimable)
        => \A k \in DOMAIN ret.rows :
              /\ ret.rows[k].timestamp_claimed = 0
              /\ ret.rows[k].timestamp_after < ret.at
              /\ \/ ret.rows[k].interval = 0
                 \/ ret.rows[k].timestamp_lastclaimed + ret.rows[k].interval < ret.at

\* get_job(type) has returned a deferred interval job that was claimed before
C5_Witness ==
    /\ ret.op = "get_job"
    /\ ret.timestamp < 0
    /\ ret.rows # <<>>
    /\ ret.rows[1].interval # 0
    /\ ret.rows[1].timestamp_lastclaimed # 0
    /\ ret.rows[1].timestamp_after = ret.at - 1

\* the interrupt handler releases the job of a worker flagged INTERRUPT_RETRY
C6_RetryStep ==
    \A w \in PoolWorkers :
        WorkInterrupted(w[1], w[2]) /\ WorkerAt(w).interrupted = INTERRUPT_RETRY =>
            \E r \in jobs' :
                /\ r.id = WorkerAt(w).job.id
                /\ r.timestamp_claimed = 0
                /\ r.timestamp_after = now + RetryDelay

\* when the thread of that worker exits, the row is as the release left it
C6_ExitStep ==
    \A w \in PoolWorkers :
        AfterWork(w[1], w[2]) /\ WorkerAt(w).pc = "after_retry" =>
            \E q \in jobs, r \in jobs' :
                /\ q.id = WorkerAt(w).job.id
                /\ r.id = q.id
                /\ r.timestamp_claimed = 0
                /\ r.timestamp_after = q.timestamp_after

\* C6 (SpecSolo). RETRY interrupt: when work() raises WorkerInterrupted with
\* the flag at INTERRUPT_RETRY, then after the thread has exited the row still
\* exists, is unclaimed and has timestamp_after = release time + 10.
C6_RetryKeepsJob == [][C6_RetryStep /\ C6_ExitStep]_vars

\* run() has left the loop and tells the workers to stop
StopStep == mpc = "stop" /\ mpc' = "join"

\* every worker of the pool then has the flag at the given level
FlagsAfterStop(level) ==
    StopStep =>
        \A t \in DOMAIN pool' : \A i \in DOMAIN pool'[t] :
            pool'[t][i].interrupted = level

\* C7 as stated (SpecSolo). Shutdown interrupt level: when the loop exits
\* after abort(), every worker in the pool has its flag set to
\* INTERRUPT_CANCEL, so that its job is finished, not released.
C7_StopSetsCancel == [][FlagsAfterStop(INTERRUPT_CANCEL)]_vars

\* a worker that raises WorkerInterrupted after the stop, the flag as the
\* stop left it, has its job released with the retry delay
C7_ReleasedAfterStop ==
    \A w \in PoolWorkers :
        /\ mpc = "join"
        /\ WorkerAt(w).interrupted = DefaultLevel
        /\ WorkInterrupted(w[1], w[2])
        => /\ pool'[w[1]][w[2]].pc = "after_retry"
           /\ \A r \in jobs' :
                 r.id = WorkerAt(w).job.id =>
                     r.timestamp_claimed = 0 /\ r.timestamp_after = now + RetryDelay

\* C7 amended (SpecSolo). When the loop exits after abort(), every worker in
\* the pool has its flag set to INTERRUPT_RETRY, the default level of
\* request_abort, so that a worker that then raises WorkerInterrupted has its
\* job released with a delay of 10 s by the interrupt handler.
C7_StopSetsRetry ==
    [][FlagsAfterStop(INTERRUPT_RETRY) /\ C7_ReleasedAfterStop]_vars

\* after the stop a worker has raised WorkerInterrupted and released its job
C7_Witness ==
    /\ mpc = "join"
    /\ \E w \in PoolWorkers :
          /\ WorkerAt(w).pc = "after_retry"
          /\ WorkerAt(w).interrupted = INTERRUPT_RETRY
          /\ \E r \in jobs :
                r.id = WorkerAt(w).job.id /\ r.timestamp_after >= T0 + RetryDelay

\* once looping is False no worker is added to the pool and no row is claimed
C8_NoNewWork ==
    ~looping =>
        /\ \A t \in DOMAIN pool' :
              Len(pool'[t]) <= (IF t \in DOMAIN pool THEN Len(pool[t]) ELSE 0)
        /\ \A r \in jobs' :
              r.timestamp_claimed # 0 =>
                  \E q \in jobs : q.id = r.id /\ q.timestamp_claimed # 0

\* no worker holds a job that was enqueued after abort()
C8_NoLateJob == \A w \in PoolWorkers : WorkerAt(w).job.id \notin late

\* C8 (SpecSolo). No dispatch after abort: once abort() has returned no job
\* is claimed and no worker is started any more; a job enqueued after abort()
\* is never dispatched.
C8_NoDispatchAfterAbort == [][C8_NoNewWork]_vars /\ []C8_NoLateJob

\* C9 (FairSolo). Shutdown termination: after abort(), if every worker's
\* work() returns or raises, run() leaves the loop, joins every worker still in
\* the pool and terminates.
C9_ShutdownTerminates ==
    /\ ~looping ~> mpc = "done"
    /\ [](mpc = "done" => LiveWorkers = {})

\* run() has ended after joining a worker that it had told to stop
C9_Witness ==
    /\ mpc = "done"
    /\ ~looping
    /\ \E w \in PoolWorkers : WorkerAt(w).interrupted = DefaultLevel

\* C10 (SpecSolo). Targeted interruption: for every job with a live worker in
\* the pool, request_interrupt(job, level) sets that worker's flag to level;
\* for a job without a worker in the pool it changes nothing.
C10_TargetedInterrupt ==
    /\ \A w \in LiveWorkers : \A level \in Levels :
          LET after == request_interrupt(WorkerAt(w).job, level)
          IN  \E i \in DOMAIN after[w[1]] :
                  /\ after[w[1]][i].job.id = WorkerAt(w).job.id
                  /\ after[w[1]][i].interrupted = level
    /\ \A job \in Handles : \A level \in Levels :
          (\A w \in PoolWorkers : WorkerAt(w).job.id # job.id)
              => request_interrupt(job, level) = pool

\* the text the scaffold appends to the status of a crashed job
CrashNote == "Crash during execution"
HasNote(r, text) == \E k \in DOMAIN r.status : r.status[k] = text

\* the crash handler appends the note to the row and does nothing else to the
\* table: it neither finishes nor releases the job; the dispatcher is untouched
C11_CrashStep ==
    \A w \in PoolWorkers :
        WorkCrashes(w[1], w[2]) =>
            /\ \A r \in jobs :
                  IF r.id = WorkerAt(w).job.id
                  THEN [r EXCEPT !.status = Append(@, CrashNote)] \in jobs'
                  ELSE r \in jobs'
            /\ Cardinality(jobs') = Cardinality(jobs)
            /\ mpc' = mpc /\ looping' = looping

\* the thread of a crashed worker ends with the one finish: a one-shot row is
\* gone, an interval row is rearmed and keeps its timestamp_after
C11_ExitStep ==
    \A w \in PoolWorkers :
        AfterWork(w[1], w[2]) /\ WorkerAt(w).pc = "after_crash" =>
            /\ \A q \in jobs :
                  q.id = WorkerAt(w).job.id =>
                      IF q.interval = 0
                      THEN \A r \in jobs' : r.id # q.id
                      ELSE [q EXCEPT !.timestamp_claimed = 0,
                                     !.timestamp_lastclaimed = now] \in jobs'
            /\ mpc' = mpc /\ looping' = looping

\* C11 (SpecSolo). Crash policy: when work() raises an exception other than
\* WorkerInterrupted, the scaffold appends "Crash during execution" to the
\* job status and then finishes the job exactly once, never releasing it: a
\* one-shot row is deleted, an interval row is rearmed; the dispatcher loop
\* keeps running.
C11_CrashPolicy == [][C11_CrashStep /\ C11_ExitStep]_vars

\* a crashed interval job has been rearmed with the note, its worker ended
C11_Witness ==
    \E w \in PoolWorkers, r \in jobs :
        /\ ~is_alive(WorkerAt(w))
        /\ r.id = WorkerAt(w).job.id
        /\ r.interval # 0
        /\ HasNote(r, CrashNote)
        /\ r.timestamp_claimed = 0
        /\ r.timestamp_lastclaimed = now
        /\ mpc \in {"loop", "fetch", "reap", "dispatch"}

\* where the dispatcher thread is while it runs its loop
LoopPcs == {"loop", "fetch", "reap", "dispatch"}

\* C12 (SpecStore). The dispatcher loop survives store failures: when
\* get_all_jobs fails with an error of the store, the dispatcher stays in its
\* loop and performs further ticks, until abort() is called.
C12_LoopSurvives == looping => mpc \in LoopPcs

\* the ids of the rows
Ids(rows) == {r.id : r \in rows}

\* the ids given out whose rows are no longer in the table
Gone == (1..(nextId - 1)) \ Ids(jobs)

\* work() of a one-shot job returns: its row is deleted by the finish(), and
\* has_jobs() is false if it was the only row
C13_ReturnStep ==
    \A w \in PoolWorkers :
        WorkReturns(w[1], w[2]) /\ WorkerAt(w).job.interval = 0 =>
            /\ WorkerAt(w).job.id \notin Ids(jobs')
            /\ Ids(jobs) \subseteq {WorkerAt(w).job.id} => ~has_jobs(jobs', now')

\* a deleted row never comes back: no get_all_jobs of the dispatcher lists
\* it and no dispatch starts a worker for it
C13_GoneStep ==
    \A id \in Gone :
        /\ id \notin Ids(jobs')
        /\ Fetch => \A k \in DOMAIN fetched' : fetched'[k].id # id
        /\ Dispatch =>
               \A t \in DOMAIN pool' : \A i \in DOMAIN pool'[t] :
                   pool'[t][i].job.id = id =>
                       /\ t \in DOMAIN pool /\ i \in DOMAIN pool[t]
                       /\ pool[t][i] = pool'[t][i]

\* C13 (SpecSolo). One-shot lifecycle: when work() returns normally for a job
\* with interval = 0 the scaffold finishes it and the row is deleted; from
\* then on get_all_jobs never returns the job and the dispatcher never starts
\* another worker for it; has_jobs() is false if it was the only job.
C13_OneShotLifecycle == [][C13_ReturnStep /\ C13_GoneStep]_vars

\* a one-shot job has run undisturbed and is gone, the dispatcher loops on
\* and time has passed since
C13_Witness ==
    \E w \in PoolWorkers :
        /\ ~is_alive(WorkerAt(w))
        /\ WorkerAt(w).job.interval = 0
        /\ WorkerAt(w).interrupted = INTERRUPT_NONE
        /\ WorkerAt(w).job.id \in Gone
        /\ ~has_jobs(jobs, now)
        /\ mpc = "fetch"
        /\ now > T0 + 1

\* the steps in which a thread of a worker calls finish() on its job
FinishStep(w) == WorkReturns(w[1], w[2]) \/ AfterWork(w[1], w[2])

\* the row of the job, as a set
RowOf(rows, job) == {r \in rows : r.id = job.id}

\* finish() on an interval job keeps the row, unclaimed and last claimed now
C14_RearmStep ==
    \A w \in PoolWorkers :
        FinishStep(w) /\ WorkerAt(w).job.interval > 0 =>
            \A q \in RowOf(jobs, WorkerAt(w).job) :
                /\ [q EXCEPT !.timestamp_claimed = 0,
                             !.timestamp_lastclaimed = now] \in jobs'
                /\ Cardinality(jobs') = Cardinality(jobs)

\* get_all_jobs of the dispatcher lists no interval job within its interval
C14_FetchStep ==
    Fetch => \A k \in DOMAIN fetched' : \A r \in RowOf(jobs, fetched'[k]) :
                 r.interval > 0 => r.timestamp_lastclaimed + r.interval < now

\* the dispatcher starts no worker for an interval job within its interval
C14_DispatchStep ==
    Dispatch =>
        \A r \in jobs :
            r.interval > 0 /\ r.timestamp_claimed = 0 /\ Claimed(r, now) \in jobs' =>
                r.timestamp_lastclaimed + r.interval < now

\* C14 (SpecSolo). Interval rearm: finish() on a job with interval > 0 keeps
\* the row with timestamp_claimed = 0 and timestamp_lastclaimed = the time of
\* the finish; the job is not eligible and not dispatched again until more
\* than interval seconds after that finish.
C14_IntervalRearm == [][C14_RearmStep /\ C14_FetchStep /\ C14_DispatchStep]_vars

\* the row after release(delay) at time t
Released(r, t, delay) == [r EXCEPT !.timestamp_claimed = 0, !.timestamp_after = t + delay]

\* release(delay) at time now: the row remains, unclaimed, to be claimed
\* after now + delay; nothing else of the table changes
C15_ReleaseStep ==
    CallRelease =>
        \E r \in jobs, delay \in Delays :
            jobs' = (jobs \ {r}) \cup {Released(r, now, delay)}

\* release(delay) can be called on every row with every delay, and leaves
\* the row unclaimed with timestamp_after = now + delay
C15_ReleaseSets ==
    \A r \in jobs, delay \in Delays :
        ENABLED (CallRelease /\ jobs' = (jobs \ {r}) \cup {Released(r, now, delay)})

\* a row is in no answer of get_all_jobs(restrict_claimable=True) while now
\* is not past its timestamp_after
C15_HeldBack ==
    \A r \in jobs :
        now <= r.timestamp_after =>
            \A f \in QueueFiles \cup {Wildcard}, rid \in RemoteIds \cup {NoRemoteId} :
                \A s \in get_all_jobs(jobs, f, rid, TRUE, now) : r \notin Range(s)

\* an unclaimed row is in the answer once now is past its timestamp_after,
\* if its interval has passed
C15_ReturnedAgain ==
    \A r \in jobs :
        /\ r.timestamp_claimed = 0
        /\ now > r.timestamp_after
        /\ (r.interval = 0 \/ r.timestamp_lastclaimed + r.interval < now)
        => \A s \in get_all_jobs(jobs, Wildcard, NoRemoteId, TRUE, now) : r \in Range(s)

\* C15 (SpecQuery). Release delay: after release(delay=D) at time t the row
\* remains with timestamp_claimed = 0 and timestamp_after = t + D; it is not
\* returned by get_all_jobs(restrict_claimable=True) at any time now <= t + D
\* and is returned again once now > t + D, if its interval condition holds.
C15_ReleaseDelay ==
    [](C15_ReleaseSets /\ C15_HeldBack /\ C15_ReturnedAgain) /\ [][C15_ReleaseStep]_vars

\* a job released with the retry delay was held back and has been returned by
\* get_all_jobs a second after the delay
C15_Witness ==
    /\ ret.op = "get_all_jobs"
    /\ ret.restrict_claimable
    /\ ret.rows # <<>>
    /\ ret.rows[1].timestamp_after = T0 + RetryDelay
    /\ ret.at = T0 + RetryDelay + 1
    /\ ret.rows[1] \in jobs

\* what finish() at time t leaves of the job's row q: nothing of a one-shot
\* row; an interval row rearmed, every other field as it was
FinishedIn(rows, q, t) ==
    IF q.interval = 0
    THEN q.id \notin Ids(rows)
    ELSE [q EXCEPT !.timestamp_claimed = 0, !.timestamp_lastclaimed = t] \in rows

\* the handler of a worker flagged INTERRUPT_CANCEL finishes the job
C16_CancelStep ==
    \A w \in PoolWorkers :
        WorkInterrupted(w[1], w[2]) /\ WorkerAt(w).interrupted = INTERRUPT_CANCEL =>
            /\ \A q \in RowOf(jobs, WorkerAt(w).job) : FinishedIn(jobs', q, now)
            /\ pool'[w[1]][w[2]].pc = "after_cancel"

\* run() of the cancelled worker goes on to its end: the row stays finished,
\* its timestamp_after as it was, and the thread ends
C16_ExitStep ==
    \A w \in PoolWorkers :
        AfterWork(w[1], w[2]) /\ WorkerAt(w).pc = "after_cancel" =>
            /\ \A q \in RowOf(jobs, WorkerAt(w).job) : FinishedIn(jobs', q, now)
            /\ WorkerAt(w).job.interval = 0 => WorkerAt(w).job.id \notin Ids(jobs')
            /\ pool'[w[1]][w[2]].pc = "dead"

DataFields ==
    {"pythonfile", "remote_id", "timestamp", "timestamp_claimed",
     "timestamp_lastclaimed", "timestamp_after", "interval", "attempts"}

\* the data of the handle is that of the row
SameData(job, r) == \A c \in DataFields : job[c] = r[c]

\* the row stored for the pair of the handle
StoredFor(rows, job) ==
    {r \in rows : \A c \in PairConstraint : r[c] = job[c]}

\* add_job has returned: a row is stored for the pair, and the handle's data
\* is that row's
C17_ReturnStep ==
    ret' # ret /\ ret'.op = "add_job" =>
        /\ StoredFor(jobs', ret'.job) # {}
        /\ \A r \in StoredFor(jobs', ret'.job) : SameData(ret'.job, r)

\* C17 (SpecAdd). add_job returns a Job handle whose data equals the row
\* stored for (pythonfile, remote_id) after the call; when a row with that
\* pair already existed the handle reflects the existing row (its timestamp,
\* timestamp_after, interval, claim state), not the arguments of the call.
C17_ReturnsStoredRow == [][C17_ReturnStep]_vars

\* the jobs of the type of the job that are ahead of it: those with an
\* earlier timestamp and those that are claimed
Ahead(rows, job) ==
    {r \in rows : /\ r.pythonfile = job.pythonfile
                  /\ r.id # job.id
                  /\ (r.timestamp < job.timestamp \/ r.timestamp_claimed > 0)}

\* get_place_in_queue has returned: 0 for a claimed job and for no other; for
\* an unclaimed job its place, 1 at the front, after the jobs ahead of it
C18_PlaceStep ==
    ret' # ret /\ ret'.op = "get_place_in_queue" =>
        /\ ret'.place = 0 <=> ret'.job.timestamp_claimed > 0
        /\ ret'.job.timestamp_claimed = 0 =>
               ret'.place = Cardinality(Ahead(jobs, ret'.job)) + 1

\* C18 (SpecPlace). get_place_in_queue(job) returns 0 iff the job is
\* claimed; for an unclaimed job it returns its 1-based position: the
\* unclaimed job at the front of its type's queue gets 1, never 0, and the
\* value counts the jobs of the type that have an earlier timestamp or are
\* claimed.
C18_PlaceInQueue == [][C18_PlaceStep]_vars

\* the start of the manager releases every row
C19_StartStep == Start => jobs' = release_all(jobs)

\* when the dispatcher reads the queue, every claimed row is in the hands of
\* a worker of its pool
C19_Recovered ==
    mpc = "fetch" =>
        \A r \in jobs :
            r.timestamp_claimed > 0 =>
                \E w \in PoolWorkers : WorkerAt(w).job.id = r.id

\* C19 (SpecRestart). Startup recovery: release_all() sets timestamp_claimed
\* = 0 on every row and is called once when the manager starts, so a job
\* left claimed by an unclean previous run is unclaimed before the first
\* dispatch tick.
C19_StartupRecovery == []C19_Recovered /\ [][C19_StartStep]_vars

\* the one-shot jobs enqueued with claim_after = T0 + 1 and not released since
Deferred(rows) == {r \in rows : r.interval = 0 /\ r.timestamp_after = T0 + 1}

\* the dispatcher starts no worker for a deferred job while now <= claim_after
C20_DispatchStep ==
    Dispatch =>
        \A r \in Deferred(jobs) :
            Claimed(r, now) \in jobs' => now > r.timestamp_after

\* the worker of a deferred job returns: the job was claimed once, and is gone
C20_ReturnStep ==
    \A w \in PoolWorkers :
        WorkReturns(w[1], w[2]) =>
            \A r \in Deferred(RowOf(jobs, WorkerAt(w).job)) :
                r.attempts = 1 /\ r.id \notin Ids(jobs')

\* a deferred job is never claimed a second time, nor before its time
C20_Once ==
    \A r \in Deferred(jobs) :
        /\ r.attempts <= 1
        /\ r.timestamp_claimed > 0 => r.timestamp_claimed > r.timestamp_after

\* C20 (SpecSolo). Deferred job: for a one-shot job enqueued with claim_after
\* = T whose worker returns normally, the dispatcher starts no worker at any
\* time now <= T, and over the whole run it claims the job exactly once.
C20_DeferredJob == []C20_Once /\ [][C20_DispatchStep /\ C20_ReturnStep]_vars

\* the deferred job is being worked on, claimed once, a second after its time
C20_Witness ==
    \E w \in PoolWorkers, r \in Deferred(jobs) :
        /\ WorkerAt(w).pc = "work"
        /\ WorkerAt(w).interrupted = INTERRUPT_NONE
        /\ WorkerAt(w).job.id = r.id
        /\ r.timestamp_claimed = T0 + 2
        /\ r.attempts = 1

\* the rows a call of get_all_jobs is to list: those of the remote id if one
\* is given, else those of the type, else all; the eligible ones if asked
Matching(rows, pythonfile, remote_id, restrict_claimable, t) ==
    {r \in rows :
        /\ IF remote_id # NoRemoteId THEN r.remote_id = remote_id
           ELSE pythonfile = Wildcard \/ r.pythonfile = pythonfile
        /\ restrict_claimable =>
              /\ r.timestamp_claimed = 0
              /\ r.timestamp_after < t
              /\ (r.interval = 0 \/ r.timestamp_lastclaimed + r.interval < t)}

\* s lists the rows of S, each once, in ascending timestamp
SortedListOf(s, S) ==
    /\ Len(s) = Cardinality(S)
    /\ Range(s) = S
    /\ \A i, j \in DOMAIN s : i < j => s[i].timestamp <= s[j].timestamp

DistinctTimestamps(S) == \A a, b \in S : a # b => a.timestamp # b.timestamp

\* whichever filter is used, every answer of get_all_jobs is the sorted list
\* of the matching rows, and the only one when their timestamps differ
C21_Listing ==
    \A f \in QueueFiles \cup {Wildcard}, rid \in {"x", "y", NoRemoteId},
       restrict \in BOOLEAN :
        LET S == Matching(jobs, f, rid, restrict, now)
            answers == get_all_jobs(jobs, f, rid, restrict, now)
        IN  /\ answers # {}
            /\ \A s \in answers : SortedListOf(s, S)
            /\ DistinctTimestamps(S) => Cardinality(answers) = 1

\* a call of get_all_jobs has returned a list in ascending timestamp
C21_CallStep ==
    ret' # ret /\ ret'.op = "get_all_jobs" =>
        /\ Range(ret'.rows) \subseteq jobs
        /\ \A i, j \in DOMAIN ret'.rows :
              i < j => /\ ret'.rows[i].timestamp <= ret'.rows[j].timestamp
                       /\ ret'.rows[i] # ret'.rows[j]

\* C21 (SpecList). FIFO listing: get_all_jobs returns its result ordered by
\* ascending timestamp; for a set of eligible jobs of one type with distinct
\* timestamps the returned sequence is exactly those jobs sorted by
\* timestamp, whichever filter (type, wildcard, remote_id,
\* restrict_claimable) is used.
C21_FifoListing == []C21_Listing /\ [][C21_CallStep]_vars

\* get_all_jobs has listed two jobs of one type, the older one first
C21_Witness ==
    /\ ret.op = "get_all_jobs"
    /\ ret.restrict_claimable
    /\ Len(ret.rows) = 2
    /\ ret.rows[1].pythonfile = ret.rows[2].pythonfile
    /\ ret.rows[1].timestamp < ret.rows[2].timestamp

StoreOps == {"execute", "fetchall", "execute_many"}

\* a store operation that met a failure of the connection has tried to
\* reconnect, at most Tries times, and has sent the query again when a try
\* succeeded; it raises only when every try has failed
C22_Retried ==
    ret.op \in StoreOps /\ ret.fault.at # "none" =>
        /\ ret.outcome.connects \in 1..Tries
        /\ ret.outcome.raised <=> ret.fault.down >= Tries
        /\ ret.outcome.raised => ret.outcome.connects = Tries
        /\ ~ret.outcome.raised => ret.outcome.connects = ret.fault.down + 1

\* C22 (SpecDatabase). Store retry: whenever a store operation (fetchone,
\* fetchall, execute, insert, update, delete, execute_many) hits a transient
\* failure of the connection, the store tries to reconnect (up to 3 tries,
\* returning at the first that succeeds) and retries the operation before
\* any failure is surfaced; the failure is surfaced only after all tries.
C22_StoreRetry == []C22_Retried

\* the workers of the pool that have terminated
Terminated(workers) == {i \in DOMAIN workers : ~is_alive(workers[i])}

\* the reap step leaves no terminated worker in the pool
C23_ReapStep ==
    Reap => \A t \in DOMAIN pool' : Terminated(pool'[t]) = {}

\* C23 (Spec). Reap completeness: at the end of the reap step of every
\* dispatcher tick no worker that had terminated when the step began remains
\* in the pool, for any number of terminated workers of the same type,
\* including two or more adjacent in the list of the pool.
C23_ReapCompleteness == [][C23_ReapStep]_vars

KnownLevels == {INTERRUPT_RETRY, INTERRUPT_CANCEL}

\* the handler of a worker whose flag is neither RETRY nor CANCEL leaves the
\* table as it is
C24_IgnoredStep ==
    \A w \in PoolWorkers :
        WorkInterrupted(w[1], w[2]) /\ WorkerAt(w).interrupted \notin KnownLevels =>
            /\ jobs' = jobs
            /\ pool'[w[1]][w[2]].pc = "after_ignored"

\* the thread of that worker ends and its row is still there, claimed
C24_StillClaimedStep ==
    \A w \in PoolWorkers :
        AfterWork(w[1], w[2]) /\ WorkerAt(w).pc = "after_ignored" =>
            \E r \in jobs' : r.id = WorkerAt(w).job.id /\ r.timestamp_claimed > 0

\* the thread of that worker ends with the finish() of after_work()
C24_FinishedStep ==
    \A w \in PoolWorkers :
        AfterWork(w[1], w[2]) /\ WorkerAt(w).pc = "after_ignored" =>
            /\ \A q \in RowOf(jobs, WorkerAt(w).job) : FinishedIn(jobs', q, now)
            /\ \A r \in jobs' : r.id = WorkerAt(w).job.id => r.timestamp_claimed = 0
            /\ pool'[w[1]][w[2]].pc = "dead"

MissingNote == "Job script does not exist. Cancelling."

\* the dispatcher comes to a job whose file does not exist: the job gets the
\* note and is finished, unclaimed and with its attempts as they were; no
\* other row changes, no worker is started, and the tick goes on
C25_MissingStep ==
    Dispatch /\ Head(fetched).pythonfile = FileMissing =>
        /\ \A q \in RowOf(jobs, Head(fetched)) :
              IF q.interval = 0
              THEN q.id \notin Ids(jobs')
              ELSE [q EXCEPT !.status = Append(@, MissingNote),
                             !.timestamp_claimed = 0,
                             !.timestamp_lastclaimed = now] \in jobs'
        /\ \A r \in jobs : r.id # Head(fetched).id => r \in jobs'
        /\ Cardinality(jobs') <= Cardinality(jobs)
        /\ pool' = pool
        /\ fetched' = Tail(fetched)
        /\ Tail(fetched) # <<>> => mpc' = "dispatch"

\* C25 (SpecOddFiles). Missing worker script: when the dispatcher fetches a
\* job whose pythonfile does not exist it appends the status note "Job
\* script does not exist. Cancelling." and finishes the job without claiming
\* it, without incrementing attempts and without starting a worker; a
\* one-shot row is deleted and the remaining jobs of the tick are still
\* processed.
C25_MissingScript == [][C25_MissingStep]_vars

\* an interval job without a file carries the note, was never claimed, and
\* the dispatcher is at the next job of the tick
C25_Witness ==
    \E r \in jobs :
        /\ r.pythonfile = FileMissing
        /\ HasNote(r, MissingNote)
        /\ r.timestamp_claimed = 0
        /\ r.attempts = 0
        /\ mpc = "dispatch"
        /\ fetched # <<>>
        /\ \A t \in DOMAIN pool : pool[t] = <<>>

\* the dispatcher comes to a job whose file has no worker class: no row and
\* no pool changes, and the tick goes on with the jobs that follow
C26_SkipStep ==
    Dispatch /\ Head(fetched).pythonfile = FileNoClass =>
        /\ jobs' = jobs
        /\ pool' = pool
        /\ fetched' = Tail(fetched)
        /\ Tail(fetched) # <<>> => mpc' = "dispatch"

\* C26 (SpecOddFiles). Unresolvable worker class: when the job's file exists
\* but contains no non-abstract BasicWorker subclass, the dispatcher skips
\* the job in that tick: the row is left unchanged (not claimed, not
\* finished, no status, attempts unchanged), no worker is added to the pool,
\* and later jobs in the same tick are still considered.
C26_UnresolvableClass == [][C26_SkipStep]_vars

\* the module of the file has been loaded, its job is as it was enqueued,
\* and the dispatcher is at the next job of the tick
C26_Witness ==
    \E r \in jobs :
        /\ r.pythonfile = FileNoClass
        /\ get_worker_type_for_file(FileNoClass) \in DOMAIN sys_modules
        /\ r.timestamp_claimed = 0
        /\ r.attempts = 0
        /\ r.status = <<>>
        /\ mpc = "dispatch"
        /\ fetched # <<>>
        /\ \A t \in DOMAIN pool : pool[t] = <<>>

\* the jobs of a tick are gone through in ascending timestamp: those passed
\* are no younger than those to come, and each part is in order
C27_InOrder ==
    /\ \A i, j \in DOMAIN fetched : i < j => fetched[i].timestamp <= fetched[j].timestamp
    /\ \A i, j \in DOMAIN passed :
          i < j => passed[i].job.timestamp <= passed[j].job.timestamp
    /\ \A i \in DOMAIN passed, j \in DOMAIN fetched :
          passed[i].job.timestamp <= fetched[j].timestamp

SameType(a, b) ==
    get_worker_type_for_file(a.pythonfile) = get_worker_type_for_file(b.pythonfile)

\* the dispatcher claims a job: no older job of its worker type that this
\* tick has passed without starting a worker is eligible and unclaimed
C27_ClaimStep ==
    Dispatch /\ (\E r \in RowOf(jobs, Head(fetched)) :
                    r.timestamp_claimed = 0 /\ Claimed(r, now) \in jobs') =>
        \A k \in DOMAIN passed :
            /\ SameType(passed[k].job, Head(fetched))
            /\ passed[k].job.timestamp < Head(fetched).timestamp
            /\ ~passed[k].started
            => \A r \in RowOf(jobs, passed[k].job) : ~MayBeClaimed(r, now)

\* C27 (Spec). Dispatch order within a type: in every dispatcher tick the
\* fetched jobs are considered in ascending timestamp order, and the
\* dispatcher never claims a job of worker type t while an older job of the
\* same type from the same fetch is left eligible and unclaimed by that tick.
C27_DispatchOrder == []C27_InOrder /\ [][C27_ClaimStep]_vars

\* the tick has started a worker for the older of two jobs of one worker
\* type and is about to claim the younger one
C27_Witness ==
    /\ mpc = "dispatch"
    /\ Len(passed) = 1
    /\ Len(fetched) = 1
    /\ passed[1].started
    /\ SameType(passed[1].job, Head(fetched))
    /\ passed[1].job.timestamp < Head(fetched).timestamp
    /\ Starts(Head(fetched))

\* the eligible jobs of a type at time t
Eligible(rows, pythonfile, t) ==
    Matching(rows, pythonfile, NoRemoteId, TRUE, t)

\* get_job(type) returns the eligible job of the type with the smallest
\* timestamp, the first of get_all_jobs(type), or None when there is none
C28_Smallest ==
    \A f \in QueueFiles : \A g \in get_job(jobs, f, 0 - 1, now) :
        IF Eligible(jobs, f, now) = {} THEN g = <<>>
        ELSE /\ Len(g) = 1
             /\ g[1] \in Eligible(jobs, f, now)
             /\ \A r \in Eligible(jobs, f, now) : g[1].timestamp <= r.timestamp
             /\ \E s \in get_all_jobs(jobs, f, NoRemoteId, TRUE, now) : s[1] = g[1]

\* a call of get_job changes no row
C28_FrameStep == ret' # ret /\ ret'.op = "get_job" => jobs' = jobs

\* two calls of get_job(type) with nothing in between return the same job:
\* the table and the clock leave one answer
C28_SameJob ==
    \A f \in QueueFiles : Cardinality(get_job(jobs, f, 0 - 1, now)) = 1

TerminalCalls(w) ==
    IF w.pc \in {"after_retry", "after_cancel"} THEN 1 ELSE 0

\* the finish() of after_work() is the only terminal call of the run
C29_AfterWorkStep ==
    \A w \in PoolWorkers :
        AfterWork(w[1], w[2]) => TerminalCalls(WorkerAt(w)) = 0

\* C29 (SpecSolo). Exactly one terminal transition per run: for every outcome
\* of work() (normal return, WorkerInterrupted with RETRY, WorkerInterrupted
\* with CANCEL, any other exception) BasicWorker.run applies exactly one of
\* finish() or release() to its job, exactly once; it never calls finish()
\* on a job it has just released or already finished.
C29_OneTerminalTransition == [][C29_AfterWorkStep]_vars

\* every claimed row is the job of a worker of the pool whose thread runs
C30_Owned ==
    \A r \in jobs :
        r.timestamp_claimed > 0 =>
            \E w \in LiveWorkers : WorkerAt(w).job.id = r.id

\* work() of a worker has returned or raised and the row of its job is
\* still claimed
C30_Pending ==
    \E w \in PoolWorkers, r \in jobs :
        /\ WorkerAt(w).pc \in BeforeAfterWork
        /\ r.id = WorkerAt(w).job.id
        /\ r.timestamp_claimed > 0

\* C30 (FairSolo). No orphaned claims: every job the dispatcher has claimed
\* has a worker in the pool until that worker exits, and once the worker's
\* work() has returned or raised, the row is eventually either deleted or
\* has timestamp_claimed = 0; no row stays claimed after its worker thread
\* has terminated.
C30_NoOrphanedClaims == []C30_Owned /\ (C30_Pending ~> ~C30_Pending)

\* the thread of a worker has ended after a crash, and the row of its
\* interval job is unclaimed, with no worker left running
C30_Witness ==
    \E w \in PoolWorkers, r \in jobs :
        /\ ~is_alive(WorkerAt(w))
        /\ r.id = WorkerAt(w).job.id
        /\ r.attempts = 1
        /\ HasNote(r, CrashNote)
        /\ r.timestamp_claimed = 0
        /\ LiveWorkers = {}


\* the rows that are eligible at time t: unclaimed, past timestamp_after,
\* and the interval gap elapsed
C32_EligibleRows(t) ==
    {r \in jobs :
        /\ r.timestamp_claimed = 0
        /\ t > r.timestamp_after
        /\ r.interval > 0 => t > r.timestamp_lastclaimed + r.interval}

\* the rows that are claimed, each by a worker whose thread runs
C32_HeldRows ==
    {r \in jobs :
        /\ r.timestamp_claimed > 0
        /\ \E w \in LiveWorkers : WorkerAt(w).job.id = r.id}

\* the unclaimed rows whose timestamp_after is still to come at time t
C32_DeferredRows(t) ==
    {r \in jobs : r.timestamp_claimed = 0 /\ r.timestamp_after >= t}

\* has_jobs() would answer true exactly when a row is eligible, and false
\* while every row is held by a running worker or deferred
C32_Answer ==
    /\ has_jobs(jobs, now) <=> C32_EligibleRows(now) # {}
    /\ jobs = C32_HeldRows \cup C32_DeferredRows(now) => ~has_jobs(jobs, now)

\* a call of has_jobs() gives that answer and changes no row
C32_CallStep ==
    HasJobs =>
        /\ ret'.result <=> C32_EligibleRows(now) # {}
        /\ jobs' = jobs

C31_Waits(id) ==
    \E r \in jobs :
        /\ r.id = id
        /\ r.timestamp_claimed = 0
        /\ r.timestamp_after < now
        /\ r.interval > 0 => r.timestamp_lastclaimed + r.interval < now
        /\ FileExists(r.pythonfile)
        /\ get_worker_for_file(r.pythonfile) # NoClass

\* the job is claimed and a worker runs for it
C31_Runs(id) ==
    /\ \E r \in jobs : r.id = id /\ r.timestamp_claimed > 0
    /\ \E w \in LiveWorkers : WorkerAt(w).job.id = id

\* C31 (FairStarve). No starvation: while the dispatcher keeps looping and
\* every worker's work() eventually terminates, every job that is eligible
\* and whose worker class resolves is eventually claimed and given a worker,
\* even when other jobs of the same worker type (including recurring
\* interval jobs with older timestamps) keep becoming eligible.
C31_NoStarvation == \A id \in 1..StarveAdds : C31_Waits(id) ~> C31_Runs(id)

=============================================================================
